---- MODULE Spec2Model ----
(***************************************************************************)
(* Model of ComplexityAnalyzer (src/time/time.cpp): the line-by-line       *)
(* heuristic time-complexity classifier.                                   *)
(*                                                                         *)
(* A source line is a sequence of lexemes.  A lexeme is one whitespace     *)
(* character, one punctuation character, the two-character comment token   *)
(* or one maximal run of word characters (an identifier or keyword).  The  *)
(* regular expressions of the source are matched lexeme by lexeme: `\b`    *)
(* holds exactly at the edges of a word lexeme, `\s*` skips whitespace     *)
(* lexemes, `[^)]*` skips every lexeme but ")".  Two word lexemes are      *)
(* never adjacent in a line (they would be one word).                      *)
(***************************************************************************)
EXTENDS Integers, Sequences, FiniteSets, TLC

\* ---- bounds ----
MaxLines == 3
MaxDeepLines == 4
MaxRuleLines == 3
MaxCalls == 2

\* ---- lexemes ----
WS == " "
Keywords == {"for", "while", "if"}
Identifiers == {"for", "while", "if", "int", "void", "const", "fib", "g", "doWork"}

\* [a-zA-Z_][a-zA-Z0-9_]* delimited by \b : a whole word lexeme
IsIdentifier(t) == t \in Identifiers

\* ---- the input lines the analyses are run on ----
LnBlank == <<WS>>
LnComment == <<"//", WS, "for", "(", ")", WS, "{">>
LnFor == <<WS, "for", WS, "(", ")", WS, "{">>
LnWhileOneLine == <<"while", "(", ")", WS, "{", WS, "}">>
LnFibDef == <<"int", WS, "fib", "(", ")", WS, "{">>
LnGDef == <<"void", WS, "g", "(", ")", WS, "const", WS, "{">>
LnIf == <<WS, "if", WS, "(", ")", WS, "{">>
LnClose == <<WS, "}">>
LnFibCall == <<WS, "fib", "(", ")", ";", WS>>
LnDoWork == <<"doWork", WS, "(", ")", ";">>
LnForCall == <<"for", WS, "(", ")", WS, "fib", "(", ")", ";">>

Lines == {LnBlank, LnComment, LnFor, LnWhileOneLine, LnFibDef, LnGDef, LnIf,
          LnClose, LnFibCall, LnDoWork}

RECURSIVE SeqsUpTo(_, _)
SeqsUpTo(S, n) ==
    IF n = 0 THEN {<< >>}
    ELSE LET shorter == SeqsUpTo(S, n - 1)
         IN  shorter \cup {Append(s, x) : s \in {t \in shorter : Len(t) = n - 1}, x \in S}

Inputs == SeqsUpTo(Lines, MaxLines)

\* longer inputs made of the lines that open and close blocks
DeepLines == {LnComment, LnFor, LnWhileOneLine, LnClose, LnFibCall}

DeepInputs == SeqsUpTo(DeepLines, MaxDeepLines)

\* inputs made of the lines on which several classification rules match
RuleLines == {LnComment, LnFibDef, LnForCall, LnFibCall, LnDoWork, LnClose}

RuleInputs == SeqsUpTo(RuleLines, MaxRuleLines)

\* ---- Complexity ----
Complexity == {"CONSTANT", "LINEAR", "QUADRATIC", "CUBIC", "LINEARITHMIC", "UNKNOWN"}

\* ---- string helpers ----
\* first position >= p of `line` that is not whitespace (Len(line)+1 if none): \s*
RECURSIVE SkipWs(_, _)
SkipWs(line, p) ==
    IF p <= Len(line) /\ line[p] = WS THEN SkipWs(line, p + 1) ELSE p

\* last position <= p of `line` that is not whitespace (0 if none)
RECURSIVE SkipWsBack(_, _)
SkipWsBack(line, p) ==
    IF p >= 1 /\ line[p] = WS THEN SkipWsBack(line, p - 1) ELSE p

\* first position >= p of `line` holding ")" (Len(line)+1 if none): [^)]*
RECURSIVE FirstClose(_, _)
FirstClose(line, p) ==
    IF p <= Len(line) /\ line[p] # ")" THEN FirstClose(line, p + 1) ELSE p

At(line, p) == IF p >= 1 /\ p <= Len(line) THEN line[p] ELSE "<end>"

\* line.find(c) != string::npos
Contains(line, c) == \E p \in 1..Len(line) : line[p] = c

\* trim that strips only the leading whitespace
trim_LeadingOnly(str) ==
    LET first == SkipWs(str, 1)
    IN  IF first > Len(str) THEN << >> ELSE SubSeq(str, first, Len(str))

\* trim: regex_replace(str, "^\\s+|\\s+$", "")
trim(str) ==
    LET first == SkipWs(str, 1)
        last == SkipWsBack(str, Len(str))
    IN  IF first > last THEN << >> ELSE SubSeq(str, first, last)

\* is_comment: line.empty() || line.substr(0, 2) == "//"
is_comment(line) == line = << >> \/ line[1] = "//"

\* \b(for|while)\s*\(   matched at position p
LoopAt(line, p) ==
    /\ line[p] \in {"for", "while"}
    /\ At(line, SkipWs(line, p + 1)) = "("

LoopOpener(line) == \E p \in 1..Len(line) : LoopAt(line, p)

\* \bNAME\s*\([^)]*\)\s*(?:const)?\s*[closers]   matched at position p
SignatureAt(line, p, closers) ==
    /\ IsIdentifier(line[p])
    /\ LET open == SkipWs(line, p + 1)
           close == FirstClose(line, open + 1)
           q == SkipWs(line, close + 1)
           r == IF At(line, q) = "const" THEN SkipWs(line, q + 1) ELSE q
       IN  /\ At(line, open) = "("
           /\ At(line, close) = ")"
           /\ At(line, r) \in closers

\* regex_search: capture 1 of the leftmost match, "" when there is none
SignatureName(line, closers) ==
    LET hits == {p \in 1..Len(line) : SignatureAt(line, p, closers)}
    IN  IF hits = {} THEN ""
        ELSE line[CHOOSE p \in hits : \A q \in hits : p <= q]

\* the pattern of analyze(): body opener only
FunctionSignature(line) == SignatureName(line, {"{"})

\* the pattern of track_function_definitions(): body opener or terminator
FunctionSignatureLoose(line) == SignatureName(line, {"{", ";"})

\* \b[a-zA-Z_][a-zA-Z0-9_]*\s*\([^)]*\)\s*;
CallDetector(line) ==
    \E p \in 1..Len(line) :
        /\ IsIdentifier(line[p])
        /\ LET open == SkipWs(line, p + 1)
               close == FirstClose(line, open + 1)
           IN  /\ At(line, open) = "("
               /\ At(line, close) = ")"
               /\ At(line, SkipWs(line, close + 1)) = ";"

\* is_recursive: \b + func_name + \s*\(
is_recursive(line, func_name) ==
    IF func_name = "" THEN FALSE
    ELSE \E p \in 1..Len(line) :
            /\ line[p] = func_name
            /\ At(line, SkipWs(line, p + 1)) = "("

\* get_complexity_reason (the ANSI colour prefix and suffix are left out)
get_complexity_reason(line, complexity) ==
    CASE complexity = "CONSTANT" -> "Constant time operation (no loops)"
      [] complexity = "LINEAR" ->
            IF LoopOpener(line) THEN "Single loop running n times"
            ELSE "Linear time operation"
      [] complexity = "QUADRATIC" -> "Nested loops (n x n iterations)"
      [] complexity = "CUBIC" -> "Triple nested loops (n x n x n iterations)"
      [] complexity = "LINEARITHMIC" -> "Divide-and-conquer or recursive algorithm"
      [] OTHER -> "Unable to determine complexity"

\* analyze_line without the function-call test
analyze_line_NoCallCheck(line, level, func) ==
    IF is_comment(line) THEN "CONSTANT"
    ELSE IF LoopOpener(line) THEN
            IF level = 0 THEN "LINEAR"
            ELSE IF level = 1 THEN "QUADRATIC"
            ELSE "CUBIC"
    ELSE IF func # "" /\ is_recursive(line, func) THEN "LINEARITHMIC"
    ELSE "CONSTANT"

\* analyze_line testing for a loop before testing for a comment
analyze_line_LoopFirst(line, level, func) ==
    IF LoopOpener(line) THEN
            IF level = 0 THEN "LINEAR"
            ELSE IF level = 1 THEN "QUADRATIC"
            ELSE "CUBIC"
    ELSE IF is_comment(line) THEN "CONSTANT"
    ELSE IF func # "" /\ is_recursive(line, func) THEN "LINEARITHMIC"
    ELSE IF CallDetector(line) THEN "UNKNOWN"
    ELSE "CONSTANT"

\* analyze_line testing for recursion before testing for a loop
analyze_line_RecursionFirst(line, level, func) ==
    IF is_comment(line) THEN "CONSTANT"
    ELSE IF func # "" /\ is_recursive(line, func) THEN "LINEARITHMIC"
    ELSE IF LoopOpener(line) THEN
            IF level = 0 THEN "LINEAR"
            ELSE IF level = 1 THEN "QUADRATIC"
            ELSE "CUBIC"
    ELSE IF CallDetector(line) THEN "UNKNOWN"
    ELSE "CONSTANT"

\* analyze_line, reading the members nesting_level and current_function
analyze_line(line, level, func) ==
    IF is_comment(line) THEN "CONSTANT"
    ELSE IF LoopOpener(line) THEN
            IF level = 0 THEN "LINEAR"
            ELSE IF level = 1 THEN "QUADRATIC"
            ELSE "CUBIC"
    ELSE IF func # "" /\ is_recursive(line, func) THEN "LINEARITHMIC"
    ELSE IF CallDetector(line) THEN "UNKNOWN"
    ELSE "CONSTANT"

Max(a, b) == IF a >= b THEN a ELSE b

\* estimate_overall_complexity with the case for 3 missing
estimate_overall_complexity_NoCubic(mx) ==
    CASE mx = 0 -> "CONSTANT"
      [] mx = 1 -> "LINEAR"
      [] mx = 2 -> "QUADRATIC"
      [] OTHER -> "LINEARITHMIC"

\* estimate_overall_complexity: switch (max_nesting)
estimate_overall_complexity(mx) ==
    CASE mx = 0 -> "CONSTANT"
      [] mx = 1 -> "LINEAR"
      [] mx = 2 -> "QUADRATIC"
      [] mx = 3 -> "CUBIC"
      [] OTHER -> "LINEARITHMIC"

\* block opening that assigns max_nesting instead of taking the maximum
OpenBlock_NoMax(line, stack, level, mx) ==
    IF LoopOpener(line)
    THEN [stack |-> Append(stack, "loop"), level |-> level + 1,
          mx |-> level + 1]
    ELSE IF Contains(line, "{")
    THEN [stack |-> Append(stack, "block"), level |-> level, mx |-> mx]
    ELSE [stack |-> stack, level |-> level, mx |-> mx]

\* block opening that pushes a generic frame in addition to the loop frame
\* when a loop line carries its own brace
OpenBlock_PushesBoth(line, stack, level, mx) ==
    IF LoopOpener(line)
    THEN [stack |-> IF Contains(line, "{")
                    THEN Append(Append(stack, "loop"), "block")
                    ELSE Append(stack, "loop"),
          level |-> level + 1, mx |-> Max(mx, level + 1)]
    ELSE IF Contains(line, "{")
    THEN [stack |-> Append(stack, "block"), level |-> level, mx |-> mx]
    ELSE [stack |-> stack, level |-> level, mx |-> mx]

\* block opening that counts a generic block as a nesting level
OpenBlock_CountsBlocks(line, stack, level, mx) ==
    IF LoopOpener(line)
    THEN [stack |-> Append(stack, "loop"), level |-> level + 1,
          mx |-> Max(mx, level + 1)]
    ELSE IF Contains(line, "{")
    THEN [stack |-> Append(stack, "block"), level |-> level + 1,
          mx |-> Max(mx, level + 1)]
    ELSE [stack |-> stack, level |-> level, mx |-> mx]

\* analyze(), "Track block openings": the stack, nesting_level and max_nesting
\* after the opener test of one line
OpenBlock(line, stack, level, mx) ==
    IF LoopOpener(line)
    THEN [stack |-> Append(stack, "loop"), level |-> level + 1,
          mx |-> Max(mx, level + 1)]
    ELSE IF Contains(line, "{")
    THEN [stack |-> Append(stack, "block"), level |-> level, mx |-> mx]
    ELSE [stack |-> stack, level |-> level, mx |-> mx]

\* block closing without the empty-stack guard
CloseBlock_NoGuard(line, stack, level) ==
    IF Contains(line, "}")
    THEN [stack |-> IF stack = << >> THEN << >>
                    ELSE SubSeq(stack, 1, Len(stack) - 1),
          level |-> IF stack = << >> \/ stack[Len(stack)] = "loop"
                    THEN level - 1 ELSE level]
    ELSE [stack |-> stack, level |-> level]

\* block closing that decrements the depth whatever frame is popped
CloseBlock_AlwaysDecrement(line, stack, level) ==
    IF Contains(line, "}") /\ stack # << >>
    THEN [stack |-> SubSeq(stack, 1, Len(stack) - 1), level |-> level - 1]
    ELSE [stack |-> stack, level |-> level]

\* block closing that pops a loop frame without decrementing the depth
CloseBlock_KeepsLevel(line, stack, level) ==
    IF Contains(line, "}") /\ stack # << >>
    THEN [stack |-> SubSeq(stack, 1, Len(stack) - 1), level |-> level]
    ELSE [stack |-> stack, level |-> level]

\* analyze(), "Track block closings": the stack and nesting_level after the
\* closer test of one line
CloseBlock(line, stack, level) ==
    IF Contains(line, "}") /\ stack # << >>
    THEN [stack |-> SubSeq(stack, 1, Len(stack) - 1),
          level |-> IF stack[Len(stack)] = "loop" THEN level - 1 ELSE level]
    ELSE [stack |-> stack, level |-> level]

\* function tracking that forgets the function when the line closes a block
TrackFunction_ClearsOnClose(line, func) ==
    LET name == FunctionSignature(line)
    IN  IF name # "" THEN name
        ELSE IF Contains(line, "}") THEN ""
        ELSE func

\* analyze(), "Track function declarations": current_function after the
\* signature test of one line
TrackFunction(line, func) ==
    LET name == FunctionSignature(line)
    IN  IF name # "" THEN name ELSE func

\* the CodeAnalysis pushed for line index i (0-based in the source)
MakeRecord(i, line, comp) ==
    [line_number |-> i + 1, code |-> line, complexity |-> comp,
     reason |-> get_complexity_reason(line, comp)]

\* track_function_definitions: function_calls[name]++ for every matching line
RECURSIVE CountDefinitions(_, _, _)
CountDefinitions(lines, k, calls) ==
    IF k > Len(lines) THEN calls
    ELSE LET name == FunctionSignatureLoose(lines[k])
         IN  CountDefinitions(lines, k + 1,
                IF name = "" THEN calls
                ELSE [calls EXCEPT ![name] = @ + 1])

VARIABLES
    code_lines,        \* vector<string> code_lines
    function_calls,    \* unordered_map<string, int> function_calls
    block_stack,       \* stack<string> block_stack (top is the last element)
    current_function,  \* string current_function
    nesting_level,     \* int nesting_level
    max_nesting,       \* int max_nesting
    pc,                \* "ready": no analyze() running; "scan": inside its loop
    i,                 \* loop index of analyze()
    results,           \* the local vector<CodeAnalysis> results of analyze()
    returned,          \* the vectors returned by the analyze() calls so far
    verdicts           \* the values returned by estimate_overall_complexity()

vars == <<code_lines, function_calls, block_stack, current_function,
          nesting_level, max_nesting, pc, i, results, returned, verdicts>>

members == <<code_lines, function_calls, block_stack, current_function,
             nesting_level, max_nesting>>

\* the constructor ComplexityAnalyzer(code) and the member initialisers
Constructed(code) ==
    /\ code_lines = code
    /\ function_calls = [n \in Identifiers |-> 0]
    /\ block_stack = << >>
    /\ current_function = ""
    /\ nesting_level = 0
    /\ max_nesting = 0
    /\ pc = "ready"
    /\ i = 0
    /\ results = << >>
    /\ returned = << >>
    /\ verdicts = << >>

\* analyze(): entry, track_function_definitions(), loop initialisation
AnalyzeBegin ==
    /\ pc = "ready"
    /\ Len(returned) < MaxCalls
    /\ Len(verdicts) = Len(returned)
    /\ function_calls' = CountDefinitions(code_lines, 1, function_calls)
    /\ results' = << >>
    /\ i' = 0
    /\ pc' = "scan"
    /\ UNCHANGED <<code_lines, block_stack, current_function, nesting_level,
                   max_nesting, returned, verdicts>>

\* analyze(): one iteration of the loop over code_lines
AnalyzeLine ==
    /\ pc = "scan"
    /\ i < Len(code_lines)
    /\ LET line == trim(code_lines[i + 1])
           func == TrackFunction(line, current_function)
           opened == OpenBlock(line, block_stack, nesting_level, max_nesting)
           comp == analyze_line(line, opened.level, func)
           closed == CloseBlock(line, opened.stack, opened.level)
       IN  /\ current_function' = func
           /\ max_nesting' = opened.mx
           /\ results' = Append(results, MakeRecord(i, line, comp))
           /\ block_stack' = closed.stack
           /\ nesting_level' = closed.level
    /\ i' = i + 1
    /\ UNCHANGED <<code_lines, function_calls, pc, returned, verdicts>>

\* analyze(): loop exit and return results
AnalyzeReturn ==
    /\ pc = "scan"
    /\ i >= Len(code_lines)
    /\ returned' = Append(returned, results)
    /\ pc' = "ready"
    /\ UNCHANGED <<members, i, results, verdicts>>

\* main(): estimate_overall_complexity() called after analyze() has returned
EstimateOverall ==
    /\ pc = "ready"
    /\ Len(verdicts) < Len(returned)
    /\ verdicts' = Append(verdicts, estimate_overall_complexity(max_nesting))
    /\ UNCHANGED <<members, pc, i, results, returned>>

Init == \E code \in Inputs : Constructed(code)

InitDeep == \E code \in DeepInputs : Constructed(code)

InitRules == \E code \in RuleInputs : Constructed(code)

Next == AnalyzeBegin \/ AnalyzeLine \/ AnalyzeReturn \/ EstimateOverall

Spec == Init /\ [][Next]_vars

SpecDeep == InitDeep /\ [][Next]_vars

SpecRules == InitRules /\ [][Next]_vars

TypeOK ==
    /\ code_lines \in Inputs \cup DeepInputs \cup RuleInputs
    /\ pc \in {"ready", "scan"}
    /\ i \in 0..Len(code_lines)
    /\ \A k \in 1..Len(block_stack) : block_stack[k] \in {"loop", "block"}
    /\ current_function \in Identifiers \cup {""}
    /\ \A k \in 1..Len(results) : results[k].complexity \in Complexity
    /\ \A k \in 1..Len(verdicts) : verdicts[k] \in Complexity

\* ---- vocabulary of the properties ----
\* the line is blank or a line comment
IsCommentText(text) == text = << >> \/ text[1] = "//"

\* text is raw without its leading and trailing whitespace
IsTrimOf(text, raw) ==
    /\ text # << >> => text[1] # WS /\ text[Len(text)] # WS
    /\ \E a \in 0..Len(raw) :
          /\ a + Len(text) <= Len(raw)
          /\ SubSeq(raw, a + 1, a + Len(text)) = text
          /\ \A p \in 1..a : raw[p] = WS
          /\ \A p \in (a + Len(text) + 1)..Len(raw) : raw[p] = WS

\* the loop class the specification assigns to a loop line at a given depth
LoopClassAtDepth(depth) ==
    IF depth = 0 THEN "LINEAR" ELSE IF depth = 1 THEN "QUADRATIC" ELSE "CUBIC"

\* the line defines a function: a signature whose name is not a block keyword
DefinedFunction(text) ==
    LET name == FunctionSignature(text)
    IN  IF name \in Keywords THEN "" ELSE name

\* the loop lines of the input are d code lines, none of them closed before
\* the last one opens: the loops nest d deep
LoopsNestDeep(lines, d) ==
    LET loops == {k \in 1..Len(lines) : LoopOpener(trim(lines[k]))}
    IN  /\ Cardinality(loops) = d
        /\ \A k \in loops : ~IsCommentText(trim(lines[k]))
        /\ \A k \in loops : \A m \in 1..k : ~Contains(lines[m], "}")

\* a step of the scan that has just processed one line
LineStep == pc = "scan" /\ i' = i + 1

\* ---- C1 ----
\* C1: a code line matching LoopOpener is classified by the nesting depth that
\* holds before the line is processed: 0 -> LINEAR, 1 -> QUADRATIC,
\* >= 2 -> CUBIC.
C1_LoopClassByPreLineDepth ==
    [][LineStep =>
         LET rec == results'[i']
         IN  (~IsCommentText(rec.code) /\ LoopOpener(rec.code))
                => rec.complexity = LoopClassAtDepth(nesting_level)]_vars

\* ---- C2 ----
\* C2: analyze() returns one record per input line, in input order; the k-th
\* record carries line number k and the trimmed text of the k-th input line.
C2_OneRecordPerLine ==
    /\ pc = "scan" => Len(results) = i
    /\ \A c \in 1..Len(returned) :
          /\ Len(returned[c]) = Len(code_lines)
          /\ \A k \in 1..Len(code_lines) :
                /\ returned[c][k].line_number = k
                /\ IsTrimOf(returned[c][k].code, code_lines[k])

C2_Witness ==
    /\ Len(returned) >= 1
    /\ Len(code_lines) >= 3
    /\ \E k \in 1..Len(code_lines) : returned[1][k].code # code_lines[k]
    /\ \E k \in 1..Len(code_lines) : returned[1][k].code = << >>
    /\ \E k \in 1..Len(code_lines) :
          code_lines[k][Len(code_lines[k])] = WS /\ returned[1][k].code # << >>

\* ---- C3 ----
\* C3: a second analyze() call on the same analyzer returns the same records
\* as the first, and the overall verdict is the same.
C3_SecondRunSameAsFirst ==
    /\ Len(returned) >= 2 => returned[2] = returned[1]
    /\ Len(verdicts) >= 2 => verdicts[2] = verdicts[1]

\* ---- C4 ----
\* C4: after a function-definition line naming f, every later code line that
\* is not a loop opener and contains a call f( is classified LINEARITHMIC, as
\* long as no other function-definition line lies in between.
C4_CallAfterDefinitionIsLogLinear ==
    \A j \in 1..Len(results) : \A k \in (j + 1)..Len(results) :
        LET f == DefinedFunction(results[j].code)
        IN  ( /\ f # ""
              /\ \A m \in (j + 1)..(k - 1) : DefinedFunction(results[m].code) = ""
              /\ ~IsCommentText(results[k].code)
              /\ ~LoopOpener(results[k].code)
              /\ is_recursive(results[k].code, f) )
            => results[k].complexity = "LINEARITHMIC"

\* ---- C5 ----
\* C5: the overall verdict is determined by the final running maximum nesting
\* depth: 0 -> CONSTANT, 1 -> LINEAR, 2 -> QUADRATIC, 3 -> CUBIC,
\* >= 4 -> LINEARITHMIC; loops nesting three deep give CUBIC, four deep
\* LINEARITHMIC.
C5_VerdictFromMaxNesting ==
    /\ (pc = "ready" /\ Len(verdicts) >= 1 /\ Len(verdicts) = Len(returned))
          => verdicts[Len(verdicts)] =
                (IF max_nesting = 0 THEN "CONSTANT"
                 ELSE IF max_nesting = 1 THEN "LINEAR"
                 ELSE IF max_nesting = 2 THEN "QUADRATIC"
                 ELSE IF max_nesting = 3 THEN "CUBIC"
                 ELSE "LINEARITHMIC")
    /\ (Len(verdicts) >= 1 /\ LoopsNestDeep(code_lines, 3)) => verdicts[1] = "CUBIC"
    /\ (Len(verdicts) >= 1 /\ LoopsNestDeep(code_lines, 4))
          => verdicts[1] = "LINEARITHMIC"

C5_Witness ==
    /\ Len(verdicts) = 1
    /\ LoopsNestDeep(code_lines, 4)
    /\ max_nesting = 4
    /\ verdicts[1] = "LINEARITHMIC"

\* ---- C6 ----
\* C6: the current nesting depth is never negative, and a line with a closing
\* brace whose closer is processed on an empty block stack leaves the stack,
\* the current depth and the running maximum unchanged.
C6_NoUnderflow ==
    /\ [](nesting_level >= 0)
    /\ [][LineStep =>
            LET text == results'[i'].code
            IN  ( /\ Contains(text, "}")
                  /\ block_stack = << >>
                  /\ ~LoopOpener(text)
                  /\ ~Contains(text, "{") )
                => /\ block_stack' = << >>
                   /\ nesting_level' = nesting_level
                   /\ max_nesting' = max_nesting]_vars

C6_Witness ==
    /\ pc = "scan"
    /\ i = 2
    /\ Len(returned) = 0
    /\ results[1].code = <<"}">>
    /\ results[2].code = <<"}">>
    /\ block_stack = << >>
    /\ nesting_level = 0

\* ---- C7 ----
\* C7: the running maximum nesting depth never decreases, is never negative
\* and is at least the current nesting depth.
C7_MaxNestingMonotone ==
    /\ [](max_nesting >= 0 /\ max_nesting >= nesting_level)
    /\ [][max_nesting' >= max_nesting]_vars

C7_Witness ==
    /\ pc = "scan"
    /\ i >= 1
    /\ results[i].code = <<"}">>
    /\ max_nesting >= 2
    /\ nesting_level = 1

\* ---- C8 ----
\* C8: an input without a LoopOpener line gets the verdict CONSTANT, also when
\* some of its lines are classified LINEARITHMIC or UNKNOWN.
C8_RecursionNotInVerdict ==
    \A c \in 1..Len(verdicts) :
        (\A k \in 1..Len(code_lines) : ~LoopOpener(code_lines[k]))
            => verdicts[c] = "CONSTANT"

C8_Witness ==
    /\ Len(verdicts) >= 1
    /\ \A k \in 1..Len(code_lines) : ~LoopOpener(code_lines[k])
    /\ \E k \in 1..Len(code_lines) : returned[1][k].complexity = "LINEARITHMIC"
    /\ \E k \in 1..Len(code_lines) : returned[1][k].complexity = "UNKNOWN"
    /\ verdicts[1] = "CONSTANT"

\* ---- C9 ----
\* C9: a code line that matches CallDetector, does not match LoopOpener and
\* does not match RecursiveCall for the tracked function name is classified
\* UNKNOWN, whatever the nesting depth.
C9_OpaqueCallIsUnknown ==
    [][LineStep =>
         LET rec == results'[i']
         IN  ( /\ CallDetector(rec.code)
               /\ ~IsCommentText(rec.code)
               /\ ~LoopOpener(rec.code)
               /\ ~is_recursive(rec.code, current_function') )
             => rec.complexity = "UNKNOWN"]_vars

C9_Witness ==
    /\ pc = "scan"
    /\ i >= 2
    /\ results[i].code = LnDoWork
    /\ results[i].complexity = "UNKNOWN"
    /\ nesting_level >= 1
    /\ current_function # ""

\* ---- C10 ----
\* C10: a line whose trimmed text is empty or starts with the comment token
\* is classified CONSTANT, whatever the nesting depth, the tracked function
\* or the text of the comment.
C10_CommentIsConstant ==
    \A k \in 1..Len(results) :
        IsCommentText(results[k].code) => results[k].complexity = "CONSTANT"

C10_Witness ==
    /\ pc = "scan"
    /\ i >= 3
    /\ results[i].code = LnComment
    /\ results[i].complexity = "CONSTANT"
    /\ results[i - 1].code = << >>
    /\ results[i - 1].complexity = "CONSTANT"
    /\ nesting_level >= 2
    /\ current_function # ""

\* ---- vocabulary of the tracker properties ----
\* number of LOOP frames on a block stack
LoopFrames(stack) == Cardinality({k \in 1..Len(stack) : stack[k] = "loop"})

\* number of lines among the first n of lines that match LoopOpener
LoopLinesIn(lines, n) ==
    Cardinality({k \in 1..n : LoopOpener(trim(lines[k]))})

\* ---- C11 ----
\* C11: every analyze() call starts from current depth 0, running maximum 0,
\* an empty block stack and an empty current-function name.
C11_RunStartsFromFreshState ==
    (pc = "scan" /\ i = 0)
        => /\ nesting_level = 0
           /\ max_nesting = 0
           /\ block_stack = << >>
           /\ current_function = ""

\* ---- C12 ----
\* C12: per line, a LoopOpener line pushes one LOOP frame, adds 1 to the
\* current depth and sets the running maximum to the larger of itself and the
\* new depth; otherwise a line with an opening brace pushes one GENERIC_BLOCK
\* frame and leaves both numbers alone; then a line with a closing brace pops
\* exactly one frame if there is one, and the depth drops by 1 iff that frame
\* is LOOP.  A line pushes at most one frame and pops at most one.
C12_TrackerStep ==
    [][LineStep =>
         LET text == results'[i'].code
             isLoop == LoopOpener(text)
             pushed == IF isLoop THEN <<"loop">>
                       ELSE IF Contains(text, "{") THEN <<"block">>
                       ELSE << >>
             mid == block_stack \o pushed
             pops == Contains(text, "}") /\ mid # << >>
             popsLoop == pops /\ mid[Len(mid)] = "loop"
         IN  /\ block_stack' = IF pops THEN SubSeq(mid, 1, Len(mid) - 1) ELSE mid
             /\ Len(block_stack') <= Len(block_stack) + 1
             /\ Len(block_stack') >= Len(block_stack) - 1
             /\ nesting_level' = nesting_level + (IF isLoop THEN 1 ELSE 0)
                                               - (IF popsLoop THEN 1 ELSE 0)
             /\ max_nesting' = IF isLoop /\ nesting_level + 1 > max_nesting
                               THEN nesting_level + 1 ELSE max_nesting]_vars

C12_Witness ==
    /\ pc = "scan"
    /\ i = 3
    /\ Len(returned) = 0
    /\ results[1].code = trim(LnFor)
    /\ results[2].code = trim(LnIf)
    /\ results[3].code = <<"}">>
    /\ block_stack = <<"loop">>
    /\ nesting_level = 1
    /\ max_nesting = 1

C14_FirstMatchingRuleWins ==
    [][LineStep =>
         LET rec == results'[i']
             text == rec.code
             recursive == is_recursive(text, current_function')
         IN  /\ rec.complexity \in Complexity
             /\ IsCommentText(text) => rec.complexity = "CONSTANT"
             /\ (~IsCommentText(text) /\ LoopOpener(text))
                    => rec.complexity \in {"LINEAR", "QUADRATIC", "CUBIC"}
             /\ (~IsCommentText(text) /\ ~LoopOpener(text) /\ recursive)
                    => rec.complexity = "LINEARITHMIC"
             /\ ( /\ ~IsCommentText(text) /\ ~LoopOpener(text) /\ ~recursive
                  /\ CallDetector(text) )
                    => rec.complexity = "UNKNOWN"
             /\ ( /\ ~IsCommentText(text) /\ ~LoopOpener(text) /\ ~recursive
                  /\ ~CallDetector(text) )
                    => rec.complexity = "CONSTANT"]_vars

C14_Witness ==
    /\ pc = "scan"
    /\ i = 3
    /\ Len(returned) = 0
    /\ results[1].code = LnFibDef
    /\ results[2].code = LnForCall
    /\ is_recursive(results[2].code, "fib") /\ CallDetector(results[2].code)
    /\ results[2].complexity = "QUADRATIC"
    /\ results[3].code = trim(LnFibCall)
    /\ CallDetector(results[3].code)
    /\ results[3].complexity = "LINEARITHMIC"
    /\ current_function = "fib"

\* ---- C15 ----
\* C15: processing a comment line or a blank line leaves the block stack, the
\* current depth, the running maximum and the current-function name as they
\* were.
C15_CommentLeavesStateUnchanged ==
    [][(LineStep /\ IsCommentText(results'[i'].code))
          => UNCHANGED <<block_stack, nesting_level, max_nesting,
                         current_function>>]_vars

\* ---- C16 ----
\* C16: the current depth equals the number of LOOP frames on the block
\* stack, so it is at most the stack size and at most the number of
\* LoopOpener lines scanned so far; the running maximum is at most the
\* number of LoopOpener lines scanned so far.
LoopLinesScanned ==
    Len(returned) * LoopLinesIn(code_lines, Len(code_lines))
        + (IF pc = "scan" THEN LoopLinesIn(code_lines, i) ELSE 0)

C16_DepthCountsLoopFrames ==
    /\ nesting_level = LoopFrames(block_stack)
    /\ nesting_level <= Len(block_stack)
    /\ nesting_level <= LoopLinesScanned
    /\ max_nesting <= LoopLinesScanned

C16_Witness ==
    /\ pc = "scan"
    /\ i = 3
    /\ Len(returned) = 0
    /\ block_stack = <<"loop", "block">>
    /\ nesting_level = 1
    /\ max_nesting = 2
    /\ LoopLinesScanned = 2

\* ---- C17 ----
\* the blocks really open after the first n lines: comment lines open and
\* close nothing
RECURSIVE TrueStack(_, _)
TrueStack(lines, n) ==
    IF n = 0 THEN << >>
    ELSE LET prev == TrueStack(lines, n - 1)
             text == trim(lines[n])
         IN  IF IsCommentText(text) THEN prev
             ELSE IF LoopOpener(text) THEN Append(prev, "loop")
             ELSE IF Contains(text, "{") THEN Append(prev, "block")
             ELSE IF Contains(text, "}") /\ prev # << >>
             THEN SubSeq(prev, 1, Len(prev) - 1)
             ELSE prev

TrueMaxNesting(lines) ==
    LET depths == {LoopFrames(TrueStack(lines, n)) : n \in 0..Len(lines)}
    IN  CHOOSE d \in depths : \A e \in depths : d >= e

Braces(line, c) == Cardinality({p \in 1..Len(line) : line[p] = c})

\* opening minus closing braces in the first n lines
RECURSIVE BraceBalance(_, _)
BraceBalance(lines, n) ==
    IF n = 0 THEN 0
    ELSE BraceBalance(lines, n - 1) + Braces(lines[n], "{") - Braces(lines[n], "}")

\* braces balanced, at most one brace per line, every LoopOpener line with its
\* own opening brace and no closing brace
WellFormedInput(lines) ==
    /\ \A k \in 1..Len(lines) : Braces(lines[k], "{") + Braces(lines[k], "}") <= 1
    /\ \A k \in 1..Len(lines) :
          LoopOpener(trim(lines[k]))
              => Contains(lines[k], "{") /\ ~Contains(lines[k], "}")
    /\ \A n \in 0..Len(lines) : BraceBalance(lines, n) >= 0
    /\ BraceBalance(lines, Len(lines)) = 0

\* C17: for a well-formed input, the depth used to classify a non-loop line
\* is the number of loops really open around it, the stack is empty and the
\* depth 0 after the last line, and the running maximum is the deepest real
\* loop nesting.
C17_DepthIsTrueLoopNesting ==
    WellFormedInput(code_lines) =>
        /\ (pc = "scan" /\ i < Len(code_lines)
               /\ ~LoopOpener(trim(code_lines[i + 1])))
              => nesting_level = LoopFrames(TrueStack(code_lines, i))
        /\ (pc = "scan" /\ i = Len(code_lines))
              => /\ block_stack = << >>
                 /\ nesting_level = 0
                 /\ max_nesting = TrueMaxNesting(code_lines)

\* ---- C18 ----
\* the name captured by the most recent of the records that matches
\* FunctionSignature ("" when none does)
LastSignature(recs) ==
    LET hits == {k \in 1..Len(recs) : FunctionSignature(recs[k].code) # ""}
    IN  IF hits = {} THEN ""
        ELSE FunctionSignature(recs[CHOOSE k \in hits : \A m \in hits : k >= m].code)

\* C18: the current-function name is updated before the line is classified
\* and is never cleared: it is the name captured by the most recent line
\* matching FunctionSignature, a closing brace does not change it, a code line
\* that is not a loop and matches FunctionSignature is itself LINEARITHMIC,
\* and so is a later call of that name, also after the body has closed.
C18_CurrentFunctionIsLastSignature ==
    /\ [](Len(returned) = 0 => current_function = LastSignature(results))
    /\ [][current_function # "" => current_function' # ""]_vars
    /\ [][LineStep =>
            LET rec == results'[i']
                text == rec.code
                name == FunctionSignature(text)
                code == ~IsCommentText(text) /\ ~LoopOpener(text)
            IN  /\ current_function' = IF name # "" THEN name ELSE current_function
                /\ (code /\ name # "") => rec.complexity = "LINEARITHMIC"
                /\ (code /\ name = "" /\ is_recursive(text, current_function))
                      => rec.complexity = "LINEARITHMIC"]_vars

C18_Witness ==
    /\ pc = "scan"
    /\ i = 3
    /\ Len(returned) = 0
    /\ results[1].code = LnFibDef
    /\ results[1].complexity = "LINEARITHMIC"
    /\ results[2].code = <<"}">>
    /\ results[3].code = trim(LnFibCall)
    /\ results[3].complexity = "LINEARITHMIC"
    /\ block_stack = << >>
    /\ current_function = "fib"

====
